---- MODULE Spec2Model ----
(***************************************************************************)
(* Model of the ledger service of src/app.js: the Account collection, the  *)
(* POST /transfer handler split at its four awaits (two findById, two      *)
(* save), GET /accounts and POST /setup-accounts (deleteMany, insertMany).  *)
(* Every request is a process whose position is the await it is suspended  *)
(* on; the store operations of different requests interleave freely, as    *)
(* they do on the event loop.                                              *)
(***************************************************************************)
EXTENDS Integers, Sequences, FiniteSets, TLC

\* ---------------------------------------------------------------- bounds
NReq == 2
NSetup == 2
MaxAmountUnits == 2

\* ------------------------------------------------------ program constants
MinBalance == 0
SeedBalanceA == 1000
SeedBalanceB == 500
ObjectIdHexLen == 24

Reqs == 1..NReq
Setups == 1..NSetup

\* ------------------------------------------------------------ identifiers
HexDigits == {"0","1","2","3","4","5","6","7","8","9",
              "a","b","c","d","e","f","A","B","C","D","E","F"}

\* the id strings a request may carry; the state holds the name, IdText the
\* characters
IdA == "A"
IdB == "B"
IdC == "C"
IdD == "D"
IdBad == "bad"
IdEmpty == "empty"

IdTexts ==
    (IdA :> [i \in 1..ObjectIdHexLen |-> "a"])
 @@ (IdB :> [i \in 1..ObjectIdHexLen |-> "b"])
 @@ (IdC :> [i \in 1..ObjectIdHexLen |-> "c"])
 @@ (IdD :> [i \in 1..ObjectIdHexLen |-> "d"])
 @@ (IdBad :> <<"n","o","t","-","a","n","-","i","d">>)
 @@ (IdEmpty :> <<>>)

IdText(id) == IdTexts[id]

\* mongoose.Types.ObjectId.isValid on a string: 24 hexadecimal characters
ObjectIdIsValid(id) ==
    /\ Len(IdText(id)) = ObjectIdHexLen
    /\ \A i \in 1..Len(IdText(id)) : IdText(id)[i] \in HexDigits

\* ---------------------------------------------------------------- values
Num(n) == [type |-> "number", num |-> n]
Undefined == [type |-> "undefined", num |-> 0]
StringAmount == [type |-> "string", num |-> 0]

\* JavaScript truthiness of the amount field (!amount)
AmountFalsy(a) == a.type = "undefined" \/ (a.type = "number" /\ a.num = 0)
\* JavaScript truthiness of an id field (!fromAccountId): the empty string
IdFalsy(id) == Len(IdText(id)) = 0

Amounts == {Undefined, StringAmount, Num(0), Num(-SeedBalanceB)}
             \cup {Num(SeedBalanceB * k) : k \in 1..MaxAmountUnits}

Body(f, t, a) == [fromAccountId |-> f, toAccountId |-> t, amount |-> a]

\* requests over well-formed, distinct ids with a positive amount
\* IdA and IdB are stored accounts, IdC and IdD are well-formed ids of no account
TransferPairs ==
    {<<IdA, IdB>>, <<IdB, IdA>>, <<IdA, IdC>>, <<IdC, IdA>>, <<IdC, IdD>>}

ValidBodies ==
    {Body(ft[1], ft[2], Num(SeedBalanceB * k)) : ft \in TransferPairs, k \in 1..MaxAmountUnits}

\* requests that break one validation rule, or several at once
InvalidBodies ==
    {Body(IdEmpty, IdB, Num(SeedBalanceB)), Body(IdA, IdEmpty, Num(SeedBalanceB)),
     Body(IdA, IdB, Undefined), Body(IdA, IdB, Num(0)),
     Body(IdA, IdB, StringAmount), Body(IdA, IdB, Num(-SeedBalanceB)),
     Body(IdA, IdA, Num(SeedBalanceB)), Body(IdBad, IdB, Num(SeedBalanceB)),
     Body(IdA, IdBad, Num(SeedBalanceB)), Body(IdBad, IdBad, Num(SeedBalanceB)),
     Body(IdBad, IdBad, Num(-SeedBalanceB)), Body(IdEmpty, IdBad, StringAmount),
     Body(IdA, IdA, Num(0)), Body(IdBad, IdB, StringAmount)}

Bodies == ValidBodies \cup InvalidBodies

\* ------------------------------------------------------------- responses
NoResp == [status |-> 0, message |-> ""]
MsgMissing == "Missing fields: fromAccountId, toAccountId, and amount are required."
MsgAmount == "Amount must be a positive number."
MsgSame == "Cannot transfer money to the same account."
MsgIdFormat == "Invalid account ID format."
MsgNoSender == "Sender account not found."
MsgNoReceiver == "Receiver account not found."
MsgFunds == "Insufficient funds."
MsgOk == "Transfer successful!"
MsgError == "Error during transfer"

Reply(s, m) == [status |-> s, message |-> m]

\* Validate without the rule on identical source and destination
ValidateNoSameCheck(b) ==
    IF IdFalsy(b.fromAccountId) \/ IdFalsy(b.toAccountId) \/ AmountFalsy(b.amount)
    THEN Reply(400, MsgMissing)
    ELSE IF b.amount.type # "number" \/ b.amount.num <= 0
    THEN Reply(400, MsgAmount)
    ELSE IF ~ObjectIdIsValid(b.fromAccountId) \/ ~ObjectIdIsValid(b.toAccountId)
    THEN Reply(400, MsgIdFormat)
    ELSE NoResp

\* the four validation rules of the handler, in the order of the code;
\* NoResp when the request passes
Validate(b) ==
    IF IdFalsy(b.fromAccountId) \/ IdFalsy(b.toAccountId) \/ AmountFalsy(b.amount)
    THEN Reply(400, MsgMissing)
    ELSE IF b.amount.type # "number" \/ b.amount.num <= 0
    THEN Reply(400, MsgAmount)
    ELSE IF b.fromAccountId = b.toAccountId
    THEN Reply(400, MsgSame)
    ELSE IF ~ObjectIdIsValid(b.fromAccountId) \/ ~ObjectIdIsValid(b.toAccountId)
    THEN Reply(400, MsgIdFormat)
    ELSE NoResp

\* ----------------------------------------------------------------- store
NoDoc == [found |-> FALSE, id |-> IdEmpty, name |-> "", balance |-> 0]

\* findById without its filter: the first document of the collection
findAny(st, id) ==
    IF DOMAIN st = {} THEN NoDoc
    ELSE LET first == CHOOSE x \in DOMAIN st : TRUE
         IN  [found |-> TRUE, id |-> first, name |-> st[first].name, balance |-> st[first].balance]

\* Account.findById: the stored document, or null
findById(st, id) ==
    IF id \in DOMAIN st
    THEN [found |-> TRUE, id |-> id, name |-> st[id].name, balance |-> st[id].balance]
    ELSE NoDoc

\* schema validation run by save(): balance has min: 0
SchemaValid(doc) == doc.balance >= MinBalance

\* SetBalance without its filter: the $set applied to every document
SetBalanceNoFilter(st, doc) ==
    [id \in DOMAIN st |-> [st[id] EXCEPT !.balance = doc.balance]]

\* the update save() sends for a modified balance: $set of the document's value
SetBalance(st, doc) == [st EXCEPT ![doc.id].balance = doc.balance]

\* the collection as POST /setup-accounts leaves it
SeedStore == (IdA :> [name |-> "UserA", balance |-> SeedBalanceA])
          @@ (IdB :> [name |-> "UserB", balance |-> SeedBalanceB])

VARIABLES store, pc, body, sender, receiver, resp, calls, snapshot, setup

vars == <<store, pc, body, sender, receiver, resp, calls, snapshot, setup>>

\* a collection without documents
EmptyStore == [id \in {} |-> [name |-> "", balance |-> 0]]

\* a POST /setup-accounts request: its position, its response status and the
\* accounts of its response
NoSetup == [pc |-> "idle", status |-> 0, accounts |-> EmptyStore]

NoBody == [fromAccountId |-> IdEmpty, toAccountId |-> IdEmpty, amount |-> Undefined]
NoSnapshot == <<>>

Init ==
    /\ store = SeedStore
    /\ pc = [p \in Reqs |-> "idle"]
    /\ body = [p \in Reqs |-> NoBody]
    /\ sender = [p \in Reqs |-> NoDoc]
    /\ receiver = [p \in Reqs |-> NoDoc]
    /\ resp = [p \in Reqs |-> NoResp]
    /\ calls = [p \in Reqs |-> <<>>]
    /\ snapshot = NoSnapshot
    /\ setup = [k \in Setups |-> NoSetup]

Amount(p) == body[p].amount.num

\* a request arrives; the handler runs to its first await
Receive(p) ==
    /\ pc[p] = "idle"
    /\ \A q \in Reqs : q < p => pc[q] # "idle"
    /\ \E b \in Bodies :
        /\ body' = [body EXCEPT ![p] = b]
        /\ IF Validate(b) # NoResp
           THEN /\ resp' = [resp EXCEPT ![p] = Validate(b)]
                /\ pc' = [pc EXCEPT ![p] = "done"]
           ELSE /\ resp' = resp
                /\ pc' = [pc EXCEPT ![p] = "findSender"]
    /\ UNCHANGED <<store, sender, receiver, calls, snapshot, setup>>

\* const sender = await Account.findById(fromAccountId)
FindSender(p) ==
    /\ pc[p] = "findSender"
    /\ sender' = [sender EXCEPT ![p] = findById(store, body[p].fromAccountId)]
    /\ calls' = [calls EXCEPT ![p] = Append(@, "findSender")]
    /\ pc' = [pc EXCEPT ![p] = "findReceiver"]
    /\ UNCHANGED <<store, body, receiver, resp, snapshot, setup>>

\* NotFoundReply looking at the receiver first
NotFoundReplyReceiverFirst(snd, rcv) ==
    IF ~rcv.found THEN Reply(404, MsgNoReceiver) ELSE Reply(404, MsgNoSender)

\* the two 404 exits: the sender is looked at first
NotFoundReply(snd, rcv) ==
    IF ~snd.found THEN Reply(404, MsgNoSender) ELSE Reply(404, MsgNoReceiver)

\* InsufficientFunds rejecting a balance equal to the amount too
InsufficientFundsOrEqual(snd, amt) == snd.balance <= amt

\* InsufficientFunds with the comparison turned round
InsufficientFundsInverted(snd, amt) == snd.balance > amt

InsufficientFunds(snd, amt) == snd.balance < amt

FundsReply(snd, amt) ==
    [status |-> 400, message |-> MsgFunds,
     currentBalance |-> snd.balance, amountToTransfer |-> amt]

Debit(snd, amt) == [snd EXCEPT !.balance = @ - amt]
\* Credit assigning the amount instead of adding it
CreditAssign(rcv, amt) == [rcv EXCEPT !.balance = amt]

Credit(rcv, amt) == [rcv EXCEPT !.balance = @ + amt]

\* const receiver = await Account.findById(toAccountId), then the checks and
\* the in-memory update up to the await of sender.save()
FindReceiver(p) ==
    /\ pc[p] = "findReceiver"
    /\ calls' = [calls EXCEPT ![p] = Append(@, "findReceiver")]
    /\ LET rcv == findById(store, body[p].toAccountId)
           snd == sender[p]
       IN  IF ~snd.found \/ ~rcv.found
           THEN /\ resp' = [resp EXCEPT ![p] = NotFoundReply(snd, rcv)]
                /\ pc' = [pc EXCEPT ![p] = "done"]
                /\ receiver' = [receiver EXCEPT ![p] = rcv]
                /\ sender' = sender
           ELSE IF InsufficientFunds(snd, Amount(p))
           THEN /\ resp' = [resp EXCEPT ![p] = FundsReply(snd, Amount(p))]
                /\ pc' = [pc EXCEPT ![p] = "done"]
                /\ receiver' = [receiver EXCEPT ![p] = rcv]
                /\ sender' = sender
           ELSE /\ sender' = [sender EXCEPT ![p] = Debit(snd, Amount(p))]
                /\ receiver' = [receiver EXCEPT ![p] = Credit(rcv, Amount(p))]
                /\ pc' = [pc EXCEPT ![p] = "saveSender"]
                /\ resp' = resp
    /\ UNCHANGED <<store, body, snapshot, setup>>

\* SenderSaved as a decrement of the stored balance ($inc) instead of a $set
SenderSavedByDecrement(p) ==
    [store EXCEPT ![sender[p].id].balance = @ - Amount(p)]

\* save() finds the document it updates; if not, DocumentNotFoundError
Stored(st, doc) == doc.id \in DOMAIN st

\* the store after await sender.save() has been applied
SenderSaved(p) == SetBalance(store, sender[p])
\* the store after await receiver.save() has been applied
ReceiverSaved(p) == SetBalance(store, receiver[p])

\* await sender.save()
SaveSender(p) ==
    /\ pc[p] = "saveSender"
    /\ calls' = [calls EXCEPT ![p] = Append(@, "saveSender")]
    /\ IF SchemaValid(sender[p]) /\ Stored(store, sender[p])
       THEN /\ store' = SenderSaved(p)
            /\ pc' = [pc EXCEPT ![p] = "saveReceiver"]
            /\ resp' = resp
       ELSE /\ store' = store
            /\ pc' = [pc EXCEPT ![p] = "done"]
            /\ resp' = [resp EXCEPT ![p] = Reply(500, MsgError)]
    /\ UNCHANGED <<body, sender, receiver, snapshot, setup>>

OkReply(snd, rcv) ==
    [status |-> 200, message |-> MsgOk,
     senderNewBalance |-> snd.balance, receiverNewBalance |-> rcv.balance]

\* SaveReceiver that writes the receiver and never sends the response
SaveReceiverNoResponse(p) ==
    /\ pc[p] = "saveReceiver"
    /\ calls' = [calls EXCEPT ![p] = Append(@, "saveReceiver")]
    /\ pc' = [pc EXCEPT ![p] = "responding"]
    /\ store' = ReceiverSaved(p)
    /\ UNCHANGED <<body, sender, receiver, resp, snapshot, setup>>

\* await receiver.save(), then the 200 response
SaveReceiver(p) ==
    /\ pc[p] = "saveReceiver"
    /\ calls' = [calls EXCEPT ![p] = Append(@, "saveReceiver")]
    /\ pc' = [pc EXCEPT ![p] = "done"]
    /\ IF SchemaValid(receiver[p]) /\ Stored(store, receiver[p])
       THEN /\ store' = ReceiverSaved(p)
            /\ resp' = [resp EXCEPT ![p] = OkReply(sender[p], receiver[p])]
       ELSE /\ store' = store
            /\ resp' = [resp EXCEPT ![p] = Reply(500, MsgError)]
    /\ UNCHANGED <<body, sender, receiver, snapshot, setup>>

\* StoreFail with the rejection of sender.save() swallowed: the handler goes
\* on to receiver.save()
StoreFailSwallowed(p) ==
    /\ pc[p] \in {"findSender", "findReceiver", "saveSender", "saveReceiver"}
    /\ calls' = [calls EXCEPT ![p] = Append(@, pc[p])]
    /\ IF pc[p] = "saveSender"
       THEN /\ pc' = [pc EXCEPT ![p] = "saveReceiver"]
            /\ resp' = resp
       ELSE /\ pc' = [pc EXCEPT ![p] = "done"]
            /\ resp' = [resp EXCEPT ![p] = Reply(500, MsgError)]
    /\ UNCHANGED <<store, body, sender, receiver, snapshot, setup>>

\* the store operation the request is suspended on rejects: the catch block
StoreFail(p) ==
    /\ pc[p] \in {"findSender", "findReceiver", "saveSender", "saveReceiver"}
    /\ calls' = [calls EXCEPT ![p] = Append(@, pc[p])]
    /\ resp' = [resp EXCEPT ![p] = Reply(500, MsgError)]
    /\ pc' = [pc EXCEPT ![p] = "done"]
    /\ UNCHANGED <<store, body, sender, receiver, snapshot, setup>>

\* GET /accounts: Account.find() answers with the collection as it is
GetAccounts ==
    /\ snapshot' = <<store>>
    /\ UNCHANGED <<store, pc, body, sender, receiver, resp, calls, setup>>

Next ==
    \/ \E p \in Reqs : Receive(p)
    \/ \E p \in Reqs : FindSender(p)
    \/ \E p \in Reqs : FindReceiver(p)
    \/ \E p \in Reqs : SaveSender(p)
    \/ \E p \in Reqs : SaveReceiver(p)
    \/ \E p \in Reqs : StoreFail(p)

Spec == Init /\ [][Next]_vars

\* the steps of one request after its arrival
TransferStep(p) ==
    \/ FindSender(p)
    \/ FindReceiver(p)
    \/ SaveSender(p)
    \/ SaveReceiver(p)
    \/ StoreFail(p)

\* one request of each outcome: funded in both directions, unfunded, with a
\* missing account, and rejected by validation
LiveBodies ==
    {Body(IdA, IdB, Num(SeedBalanceB)), Body(IdB, IdA, Num(SeedBalanceB)),
     Body(IdB, IdA, Num(SeedBalanceA)), Body(IdA, IdC, Num(SeedBalanceB)),
     Body(IdA, IdA, Num(SeedBalanceB))}

\* a request of LiveBodies arrives; the handler runs to its first await
ReceiveLive(p) ==
    /\ pc[p] = "idle"
    /\ \A q \in Reqs : q < p => pc[q] # "idle"
    /\ \E b \in LiveBodies :
        /\ body' = [body EXCEPT ![p] = b]
        /\ IF Validate(b) # NoResp
           THEN /\ resp' = [resp EXCEPT ![p] = Validate(b)]
                /\ pc' = [pc EXCEPT ![p] = "done"]
           ELSE /\ resp' = resp
                /\ pc' = [pc EXCEPT ![p] = "findSender"]
    /\ UNCHANGED <<store, sender, receiver, calls, snapshot, setup>>

NextLive ==
    \/ \E p \in Reqs : ReceiveLive(p)
    \/ \E p \in Reqs : FindSender(p)
    \/ \E p \in Reqs : FindReceiver(p)
    \/ \E p \in Reqs : SaveSender(p)
    \/ \E p \in Reqs : SaveReceiver(p)
    \/ \E p \in Reqs : StoreFail(p)

\* the event loop runs the continuation of every store operation that has
\* settled, and every store operation settles
FairSpec == Init /\ [][NextLive]_vars /\ \A p \in Reqs : WF_vars(TransferStep(p))

\* POST /transfer run from arrival to response with nothing else running and
\* no store failure: the store it leaves and the response it gives
Alone(st, b) ==
    LET snd == findById(st, b.fromAccountId)
        rcv == findById(st, b.toAccountId)
        amt == b.amount.num
    IN  IF Validate(b) # NoResp THEN [store |-> st, resp |-> Validate(b)]
        ELSE IF ~snd.found \/ ~rcv.found
        THEN [store |-> st, resp |-> NotFoundReply(snd, rcv)]
        ELSE IF InsufficientFunds(snd, amt)
        THEN [store |-> st, resp |-> FundsReply(snd, amt)]
        ELSE IF ~SchemaValid(Debit(snd, amt))
        THEN [store |-> st, resp |-> Reply(500, MsgError)]
        ELSE IF ~SchemaValid(Credit(rcv, amt))
        THEN [store |-> SetBalance(st, Debit(snd, amt)), resp |-> Reply(500, MsgError)]
        ELSE [store |-> SetBalance(SetBalance(st, Debit(snd, amt)), Credit(rcv, amt)),
              resp |-> OkReply(Debit(snd, amt), Credit(rcv, amt))]

\* a collection of four accounts, as two overlapping POST /setup-accounts
\* leave it (each inserts a UserA and a UserB)
FourStore ==
    SeedStore @@ (IdC :> [name |-> "UserA", balance |-> SeedBalanceA])
              @@ (IdD :> [name |-> "UserB", balance |-> SeedBalanceB])

InitFour ==
    /\ store = FourStore
    /\ pc = [p \in Reqs |-> "idle"]
    /\ body = [p \in Reqs |-> NoBody]
    /\ sender = [p \in Reqs |-> NoDoc]
    /\ receiver = [p \in Reqs |-> NoDoc]
    /\ resp = [p \in Reqs |-> NoResp]
    /\ calls = [p \in Reqs |-> <<>>]
    /\ snapshot = NoSnapshot
    /\ setup = [k \in Setups |-> NoSetup]

\* transfers over two disjoint pairs and over one pair that shares an account
\* with each of them
FourPairs == {<<IdA, IdB>>, <<IdC, IdD>>, <<IdB, IdC>>}

FourBodies ==
    {Body(ft[1], ft[2], Num(SeedBalanceB * k)) : ft \in FourPairs, k \in 1..MaxAmountUnits}

\* a request of FourBodies arrives; the handler runs to its first await
ReceiveFour(p) ==
    /\ pc[p] = "idle"
    /\ \A q \in Reqs : q < p => pc[q] # "idle"
    /\ \E b \in FourBodies :
        /\ body' = [body EXCEPT ![p] = b]
        /\ IF Validate(b) # NoResp
           THEN /\ resp' = [resp EXCEPT ![p] = Validate(b)]
                /\ pc' = [pc EXCEPT ![p] = "done"]
           ELSE /\ resp' = resp
                /\ pc' = [pc EXCEPT ![p] = "findSender"]
    /\ UNCHANGED <<store, sender, receiver, calls, snapshot, setup>>

NextFour ==
    \/ \E p \in Reqs : ReceiveFour(p)
    \/ \E p \in Reqs : FindSender(p)
    \/ \E p \in Reqs : FindReceiver(p)
    \/ \E p \in Reqs : SaveSender(p)
    \/ \E p \in Reqs : SaveReceiver(p)
    \/ \E p \in Reqs : StoreFail(p)

SpecFour == InitFour /\ [][NextFour]_vars

\* the documents insertMany creates for setup request k, under fresh ids
CreatedAccounts(k) ==
    (("A" \o ToString(k)) :> [name |-> "UserA", balance |-> SeedBalanceA])
 @@ (("B" \o ToString(k)) :> [name |-> "UserB", balance |-> SeedBalanceB])

\* POST /setup-accounts arrives; the handler runs to the await of deleteMany
SetupReceive(k) ==
    /\ setup[k].pc = "idle"
    /\ \A j \in Setups : j < k => setup[j].pc # "idle"
    /\ setup' = [setup EXCEPT ![k].pc = "deleteMany"]
    /\ UNCHANGED <<store, pc, body, sender, receiver, resp, calls, snapshot>>

\* await Account.deleteMany({})
SetupDelete(k) ==
    /\ setup[k].pc = "deleteMany"
    /\ store' = EmptyStore
    /\ setup' = [setup EXCEPT ![k].pc = "insertMany"]
    /\ UNCHANGED <<pc, body, sender, receiver, resp, calls, snapshot>>

\* await Account.insertMany(accounts), then the 201 response
SetupInsert(k) ==
    /\ setup[k].pc = "insertMany"
    /\ store' = store @@ CreatedAccounts(k)
    /\ setup' = [setup EXCEPT ![k] = [pc |-> "done", status |-> 201,
                                       accounts |-> CreatedAccounts(k)]]
    /\ UNCHANGED <<pc, body, sender, receiver, resp, calls, snapshot>>

\* deleteMany or insertMany rejects: the catch block of the setup handler
SetupFail(k) ==
    /\ setup[k].pc \in {"deleteMany", "insertMany"}
    /\ setup' = [setup EXCEPT ![k] = [pc |-> "done", status |-> 500,
                                       accounts |-> EmptyStore]]
    /\ UNCHANGED <<store, pc, body, sender, receiver, resp, calls, snapshot>>

NextSetup ==
    \/ Next
    \/ \E k \in Setups : SetupReceive(k)
    \/ \E k \in Setups : SetupDelete(k)
    \/ \E k \in Setups : SetupInsert(k)
    \/ \E k \in Setups : SetupFail(k)

\* the transfers together with seeding requests
SpecSetup == Init /\ [][NextSetup]_vars

\* the transfers together with readers of GET /accounts
NextRead == Next \/ GetAccounts

SpecRead == Init /\ [][NextRead]_vars

\* ======================================================================
\* Properties
\* ======================================================================
RECURSIVE SumBalances(_, _)
SumBalances(st, ids) ==
    IF ids = {} THEN 0
    ELSE LET id == CHOOSE x \in ids : TRUE
         IN  st[id].balance + SumBalances(st, ids \ {id})

Total(st) == SumBalances(st, DOMAIN st)

Started == {p \in Reqs : pc[p] # "idle"}
Quiescent == \A p \in Reqs : pc[p] \in {"idle", "done"}
NoStoreFailure == \A p \in Reqs : resp[p].status # 500
From(p) == body[p].fromAccountId
To(p) == body[p].toAccountId
IsSave(c) == c \in {"saveSender", "saveReceiver"}
NoSaveBy(p) == \A i \in 1..Len(calls[p]) : ~IsSave(calls[p][i])

\* C1 (conservation): whenever no transfer is in progress and no store
\* operation has failed, the stored balances sum to what they summed to
\* before the requests were issued.
C1_Conservation ==
    (Quiescent /\ NoStoreFailure) => Total(store) = Total(SeedStore)

\* C2 (non-negativity): in every reachable state, the states between the
\* individual writes of concurrent transfers included, every stored balance
\* is at least 0.
C2_NonNegative == \A id \in DOMAIN store : store[id].balance >= 0

\* two transfers that both passed the funds check on the same read of the
\* same sender, together asking for more than it held, have both written
C2_Witness ==
    \E p, q \in Reqs :
        /\ p # q
        /\ pc[p] = "saveReceiver" /\ pc[q] = "saveReceiver"
        /\ From(p) = From(q)
        /\ Amount(p) + Amount(q) > SeedStore[From(p)].balance
        /\ store[From(p)].balance = 0

\* C3 (atomicity under failure): a transfer, the only request issued, whose
\* receiver save failed after its sender save succeeded has, once it has
\* answered, left the sender's stored balance at its pre-transfer value.
C3_AtomicOnFailure ==
    \A p \in Reqs :
        ( /\ pc[p] = "done"
          /\ resp[p].status = 500
          /\ calls[p] = <<"findSender", "findReceiver", "saveSender", "saveReceiver">>
          /\ \A q \in Reqs \ {p} : pc[q] = "idle" )
        => store[From(p)].balance = SeedStore[From(p)].balance

\* C4 (no lost update): when the requests issued are transfers of one amount
\* between IdA and IdB, as many from IdA to IdB as from IdB to IdA, and all of
\* them have answered 200, both accounts hold their original balances.
C4_NoLostUpdate ==
    ( /\ Started # {}
      /\ \A p \in Started : pc[p] = "done" /\ resp[p].status = 200
      /\ \A p \in Started : <<From(p), To(p)>> \in {<<IdA, IdB>>, <<IdB, IdA>>}
      /\ \A p, q \in Started : Amount(p) = Amount(q)
      /\ Cardinality({p \in Started : From(p) = IdA})
           = Cardinality({p \in Started : From(p) = IdB}) )
    => store = SeedStore

SerialOrder(p, q) ==
    LET first == Alone(SeedStore, body[p])
        second == Alone(first.store, body[q])
    IN  /\ store = second.store
        /\ resp[p] = first.resp
        /\ resp[q] = second.resp

\* C5 (serializability): two transfers that share an account, the only
\* requests issued, with no store failure, end with the balances and the
\* responses of one of them run entirely before the other.
C5_Serializable ==
    \A p, q \in Reqs :
        ( /\ p # q
          /\ Started = {p, q}
          /\ pc[p] = "done" /\ pc[q] = "done"
          /\ Validate(body[p]) = NoResp /\ Validate(body[q]) = NoResp
          /\ {From(p), To(p)} \cap {From(q), To(q)} # {}
          /\ NoStoreFailure )
        => (SerialOrder(p, q) \/ SerialOrder(q, p))

\* C6 (no torn read): with one transfer issued, every snapshot returned by
\* GET /accounts has the balance sum of the state before the transfer.
C6_NoTornRead ==
    (Len(snapshot) = 1 /\ Cardinality(Started) <= 1)
    => Total(snapshot[1]) = Total(SeedStore)

\* C7 (conditional write): a save writes an account only while the stored
\* balance is still the one the transfer read (the document's balance before
\* its in-memory debit or credit).
C7_ConditionalWrite ==
    [][\A p \in Reqs :
        /\ (pc[p] = "saveSender" /\ pc'[p] = "saveReceiver")
             => store[From(p)].balance = sender[p].balance + Amount(p)
        /\ (pc[p] = "saveReceiver" /\ resp'[p].status = 200)
             => store[To(p)].balance = receiver[p].balance - Amount(p)]_vars

\* C8 (insufficient funds): when a transfer has found both accounts and the
\* sender balance it read is below the amount, it answers 400 with
\* currentBalance the balance read and amountToTransfer the amount, the store
\* is left as it was, and the request has issued no save.
C8_InsufficientFunds ==
    [][\A p \in Reqs :
        ( /\ pc[p] = "findReceiver" /\ pc'[p] # "findReceiver"
          /\ resp'[p].status # 500
          /\ sender[p].found /\ To(p) \in DOMAIN store
          /\ sender[p].balance < Amount(p) )
        => /\ pc'[p] = "done"
           /\ resp'[p] = [status |-> 400, message |-> MsgFunds,
                          currentBalance |-> sender[p].balance,
                          amountToTransfer |-> Amount(p)]
           /\ store' = store
           /\ calls'[p] = <<"findSender", "findReceiver">>]_vars

C8_Witness ==
    \E p \in Reqs :
        /\ pc[p] = "done"
        /\ resp[p].status = 400 /\ resp[p].message = MsgFunds
        /\ sender[p].found /\ receiver[p].found
        /\ sender[p].balance < Amount(p)
        /\ NoSaveBy(p)

\* C9 (missing account): when a valid transfer has read both ids and the
\* sender is not in the store it answers 404 naming the sender, also when the
\* receiver is missing too; when only the receiver is not in the store it
\* answers 404 naming the receiver; the store is left as it was and the
\* request has issued no save.
C9_MissingAccount ==
    [][\A p \in Reqs :
        ( /\ pc[p] = "findReceiver" /\ pc'[p] # "findReceiver"
          /\ resp'[p].status # 500
          /\ (~sender[p].found \/ To(p) \notin DOMAIN store) )
        => /\ pc'[p] = "done"
           /\ resp'[p].status = 404
           /\ resp'[p].message = (IF ~sender[p].found THEN MsgNoSender ELSE MsgNoReceiver)
           /\ store' = store
           /\ calls'[p] = <<"findSender", "findReceiver">>]_vars

C9_Witness ==
    \E p, q \in Reqs :
        /\ pc[p] = "done" /\ pc[q] = "done"
        /\ From(p) \notin DOMAIN store /\ To(p) \notin DOMAIN store
        /\ resp[p] = Reply(404, MsgNoSender)
        /\ From(q) \in DOMAIN store /\ To(q) \notin DOMAIN store
        /\ resp[q] = Reply(404, MsgNoReceiver)
        /\ NoSaveBy(p) /\ NoSaveBy(q)
        /\ store = SeedStore

\* a request the validation rules reject: a missing field, an amount that is
\* not a positive number, identical ids, or a malformed id
Rejectable(b) ==
    \/ IdText(b.fromAccountId) = <<>> \/ IdText(b.toAccountId) = <<>>
    \/ b.amount.type # "number" \/ b.amount.num <= 0
    \/ b.fromAccountId = b.toAccountId
    \/ \E id \in {b.fromAccountId, b.toAccountId} :
          \/ Len(IdText(id)) # ObjectIdHexLen
          \/ \E i \in 1..Len(IdText(id)) : IdText(id)[i] \notin HexDigits

RejectableBodies == {b \in Bodies : Rejectable(b)}

\* C10 (validation before store access): a request with a missing field, an
\* amount that is not a positive number, identical source and destination, or
\* a malformed id has answered 400 as soon as it has arrived and has issued
\* no store read and no store write.
C10_ValidationFirst ==
    \A p \in Started :
        body[p] \in RejectableBodies
        => pc[p] = "done" /\ resp[p].status = 400 /\ calls[p] = <<>>

\* transfer(X, X, 500) has been rejected while another transfer is between
\* its two writes
C10_Witness ==
    \E p, q \in Reqs :
        /\ pc[p] = "done"
        /\ From(p) = IdA /\ To(p) = IdA /\ body[p].amount = Num(SeedBalanceB)
        /\ resp[p].status = 400 /\ calls[p] = <<>>
        /\ pc[q] = "saveReceiver"

\* C11 (successful transfer result): a valid transfer of amount a between two
\* stored accounts, the only request issued, with no store failure and a
\* sender balance s >= a, answers 200 with senderNewBalance = s - a and
\* receiverNewBalance = r + a, and the store then holds those two balances.
C11_SuccessResult ==
    \A p \in Reqs :
        ( /\ Started = {p}
          /\ pc[p] = "done"
          /\ resp[p].status # 500
          /\ body[p] \in ValidBodies
          /\ From(p) \in DOMAIN SeedStore /\ To(p) \in DOMAIN SeedStore
          /\ SeedStore[From(p)].balance >= Amount(p) )
        => /\ resp[p] = [status |-> 200, message |-> MsgOk,
                         senderNewBalance |-> SeedStore[From(p)].balance - Amount(p),
                         receiverNewBalance |-> SeedStore[To(p)].balance + Amount(p)]
           /\ store[From(p)].balance = SeedStore[From(p)].balance - Amount(p)
           /\ store[To(p)].balance = SeedStore[To(p)].balance + Amount(p)
           /\ DOMAIN store = {From(p), To(p)}

\* transfer(A, B, 500) on A = 1000, B = 500 has answered: A = 500, B = 1000
C11_Witness ==
    \E p \in Reqs :
        /\ Started = {p} /\ pc[p] = "done"
        /\ From(p) = IdA /\ To(p) = IdB /\ Amount(p) = SeedBalanceB
        /\ resp[p].status = 200
        /\ resp[p].senderNewBalance = SeedBalanceA - SeedBalanceB
        /\ resp[p].receiverNewBalance = SeedBalanceB + SeedBalanceB
        /\ store[IdA].balance = SeedBalanceA - SeedBalanceB
        /\ store[IdB].balance = SeedBalanceB + SeedBalanceB

\* C12 (deadlock freedom and completion): every request in progress can take
\* its next step whatever the other requests are doing, a request that has
\* answered keeps its one response, and under fair scheduling every request
\* that has arrived ends with a response of status 200, 400, 404 or 500.
C12_Completion ==
    /\ [](\A p \in Reqs : pc[p] \notin {"idle", "done"} => ENABLED TransferStep(p))
    /\ [][\A p \in Reqs : pc[p] = "done" => pc'[p] = "done" /\ resp'[p] = resp[p]]_vars
    /\ \A p \in Reqs :
         (pc[p] # "idle") ~> (pc[p] = "done" /\ resp[p].status \in {200, 400, 404, 500})

\* A->B and B->A are both between their two saves, each having written the
\* account the other is about to write
C12_Witness ==
    \E p, q \in Reqs :
        /\ pc[p] = "saveReceiver" /\ pc[q] = "saveReceiver"
        /\ From(p) = IdA /\ To(p) = IdB
        /\ From(q) = IdB /\ To(q) = IdA

SerialFrom(st0, p, q) ==
    LET first == Alone(st0, body[p])
        second == Alone(first.store, body[q])
    IN  /\ store = second.store
        /\ resp[p] = first.resp
        /\ resp[q] = second.resp

\* C13 (disjoint pairs are independent): two transfers over four distinct
\* stored accounts, the only requests issued, with no store failure, end in
\* every interleaving with the balances and the responses of the two run one
\* after the other, in either order.
C13_DisjointIndependent ==
    \A p, q \in Reqs :
        ( /\ p # q
          /\ Started = {p, q}
          /\ pc[p] = "done" /\ pc[q] = "done"
          /\ Cardinality({From(p), To(p), From(q), To(q)}) = 4
          /\ {From(p), To(p), From(q), To(q)} \subseteq DOMAIN FourStore
          /\ NoStoreFailure )
        => (SerialFrom(FourStore, p, q) /\ SerialFrom(FourStore, q, p))

\* A->B and C->D have both answered 200 after both read before either wrote
C13_Witness ==
    \E p, q \in Reqs :
        /\ Started = {p, q}
        /\ pc[p] = "done" /\ pc[q] = "done"
        /\ From(p) = IdA /\ To(p) = IdB /\ From(q) = IdC /\ To(q) = IdD
        /\ resp[p].status = 200 /\ resp[q].status = 200
        /\ store[IdA].balance < FourStore[IdA].balance
        /\ store[IdD].balance > FourStore[IdD].balance

\* C14 (frame of a transfer): no step of a transfer creates or deletes an
\* account or changes a name, and the only balances a step changes are those
\* of the accounts named by the request that takes the step.
C14_Frame ==
    [][ /\ DOMAIN store' = DOMAIN store
        /\ \A id \in DOMAIN store :
             /\ store'[id].name = store[id].name
             /\ store'[id] # store[id]
                  => \E p \in Reqs : pc'[p] # pc[p] /\ id \in {From(p), To(p)} ]_vars

\* one transfer has answered 200 and another has failed, and the two accounts
\* neither of them names are as they were
C14_Witness ==
    \E p, q \in Reqs :
        /\ pc[p] = "done" /\ resp[p].status = 200
        /\ pc[q] = "done" /\ resp[q].status = 500
        /\ From(p) = IdA /\ To(p) = IdB /\ From(q) = IdA /\ To(q) = IdB
        /\ store[IdA] # FourStore[IdA]
        /\ store[IdC] = FourStore[IdC] /\ store[IdD] = FourStore[IdD]
        /\ DOMAIN store = DOMAIN FourStore

UpToSenderSave == <<"findSender", "findReceiver", "saveSender">>

\* C15 (failure of the first write): the await of sender.save() ends either
\* with the sender written or with a 500 response and the store as it was; a
\* request whose last store call was the failed sender save has answered 500,
\* never issues receiver.save(), and, when it is the only request issued, both
\* accounts hold their pre-transfer balances.
C15_FirstWriteFails ==
    /\ [][\A p \in Reqs :
            (pc[p] = "saveSender" /\ pc'[p] # "saveSender")
            => \/ /\ pc'[p] = "saveReceiver"
                  /\ store'[From(p)].balance = sender[p].balance
               \/ /\ pc'[p] = "done"
                  /\ resp'[p] = Reply(500, MsgError)
                  /\ store' = store
                  /\ calls'[p] = UpToSenderSave]_vars
    /\ [][\A p \in Reqs : pc[p] = "done" => calls'[p] = calls[p]]_vars
    /\ [](\A p \in Reqs :
            (pc[p] = "done" /\ calls[p] = UpToSenderSave)
            => /\ resp[p].status = 500
               /\ Started = {p} => store = SeedStore)

C15_Witness ==
    \E p \in Reqs :
        /\ Started = {p} /\ pc[p] = "done"
        /\ calls[p] = UpToSenderSave
        /\ resp[p].status = 500
        /\ sender[p].balance < SeedStore[From(p)].balance
        /\ store = SeedStore

\* C16 (funds boundary): a request is answered "Insufficient funds." only when
\* the balance it read is strictly below the amount; a transfer whose amount
\* equals the balance read passes the check with an in-memory balance of 0,
\* its sender save stores 0, and when it is the only request issued and
\* nothing fails it answers 200 and the sender's stored balance is 0.
C16_FundsBoundary ==
    /\ [](\A p \in Reqs : resp[p].message = MsgFunds => sender[p].balance < Amount(p))
    /\ [][\A p \in Reqs :
            ( /\ pc[p] = "findReceiver" /\ pc'[p] # "findReceiver"
              /\ resp'[p].status # 500
              /\ sender[p].found /\ To(p) \in DOMAIN store
              /\ sender[p].balance = Amount(p) )
            => pc'[p] = "saveSender" /\ sender'[p].balance = 0]_vars
    /\ [][\A p \in Reqs :
            (pc[p] = "saveSender" /\ pc'[p] = "saveReceiver" /\ sender[p].balance = 0)
            => store'[From(p)].balance = 0]_vars
    /\ [](\A p \in Reqs :
            ( /\ Started = {p} /\ pc[p] = "done" /\ resp[p].status # 500
              /\ body[p] \in ValidBodies
              /\ From(p) \in DOMAIN SeedStore /\ To(p) \in DOMAIN SeedStore
              /\ Amount(p) = SeedStore[From(p)].balance )
            => resp[p].status = 200 /\ store[From(p)].balance = 0)

\* transfer(B, A, 500) on B = 500 has answered 200 and B holds 0
C16_Witness ==
    \E p \in Reqs :
        /\ Started = {p} /\ pc[p] = "done"
        /\ From(p) = IdB /\ To(p) = IdA /\ Amount(p) = SeedStore[IdB].balance
        /\ resp[p].status = 200 /\ resp[p].senderNewBalance = 0
        /\ store[IdB].balance = 0

\* the rules in the order of the claim: a field is missing when it is absent
\* from the body; then the amount, then identical ids, then the id format
FirstViolation(b) ==
    IF \/ IdText(b.fromAccountId) = <<>> \/ IdText(b.toAccountId) = <<>>
       \/ b.amount.type = "undefined"
    THEN MsgMissing
    ELSE IF b.amount.type # "number" \/ b.amount.num <= 0
    THEN MsgAmount
    ELSE IF b.fromAccountId = b.toAccountId
    THEN MsgSame
    ELSE MsgIdFormat

FirstViolations == [b \in RejectableBodies |-> FirstViolation(b)]

\* C17 (first violation wins): a request that breaks validation rules is
\* answered once, with status 400 and the message of the first rule it breaks
\* in the order missing field, amount, identical ids, malformed id.
C17_FirstViolation ==
    \A p \in Started :
        body[p] \in RejectableBodies
        => pc[p] = "done" /\ resp[p] = Reply(400, FirstViolations[body[p]])

SeededAccounts ==
    {[name |-> "UserA", balance |-> SeedBalanceA], [name |-> "UserB", balance |-> SeedBalanceB]}

\* C18 (seeding resets the ledger): when POST /setup-accounts answers 201 with
\* no transfer in progress, the store holds exactly two accounts, UserA with
\* 1000 and UserB with 500, and they are the accounts of the response.
C18_SeedingResets ==
    [][\A k \in Setups :
        (setup[k].pc = "insertMany" /\ setup'[k].status = 201 /\ Quiescent)
        => /\ Cardinality(DOMAIN store') = 2
           /\ {store'[id] : id \in DOMAIN store'} = SeededAccounts
           /\ setup'[k].accounts = store']_vars
====
